---- MODULE Spec2Model ----
(***************************************************************************)
(* Segmented sieve of Eratosthenes (segmented_sieve.cpp).                  *)
(*                                                                         *)
(* The function segmented_sieve(limit) is modelled statement by statement: *)
(* every loop iteration of the source is one step, and the program counter *)
(* pc names the loop the control is in.  The cache-size constant           *)
(* L1D_CACHE_SIZE is a parameter of the run, drawn from 1..MaxCache, so    *)
(* that runs with several segments are explored.                           *)
(***************************************************************************)
EXTENDS Integers, Sequences, FiniteSets

\* Bounds of the exploration.
MaxLimit == 180
MaxCache == 8

VARIABLES
  limit,         \* the argument of segmented_sieve
  L1D_CACHE_SIZE,\* the cache-size constant of the build
  sqrt,          \* (int64_t) std::sqrt(limit)
  segment_size,
  count,
  i, n, s,       \* resumable cursors of the three outer-scope loops
  sieve,         \* std::vector<char> sieve(segment_size), index 0..size-1
  is_prime,      \* std::vector<char> is_prime(sqrt + 1), index 0..sqrt
  primes,        \* std::vector<int64_t> primes   (position q is primes[q+1])
  indexes,       \* std::vector<int64_t> indexes  (position q is indexes[q+1])
  low, high, sqrt_high,
  idx,           \* the std::size_t i of the segmented-sieve loop (line 64)
  j,             \* the local j of the inner loop being run (line 50 / 66)
  emitted,       \* the values n at which count++ ran, in order (line 74)
  pc

vars == <<limit, L1D_CACHE_SIZE, sqrt, segment_size, count, i, n, s, sieve,
          is_prime, primes, indexes, low, high, sqrt_high, idx, j, emitted, pc>>

----------------------------------------------------------------------------
\* Pure helpers of the source.

Max(a, b) == IF a < b THEN b ELSE a
Min(a, b) == IF b < a THEN b ELSE a

\* (int64_t) std::sqrt(x) for 0 <= x: the double square root, truncated.
\* It is computed by counting up, as an integer square root; for the values
\* explored here the double result is exact before truncation.
RECURSIVE SqrtFrom(_, _)
SqrtFrom(x, r) == IF (r + 1) * (r + 1) <= x THEN SqrtFrom(x, r + 1) ELSE r
ISqrt(x) == SqrtFrom(x, 0)

\* line 26
SegmentSizeCacheOnly(sq, cache) == cache
SegmentSize(sq, cache) == Max(sq, cache)

\* line 27
InitCountOffByOne(lim) == IF lim < 1 THEN 0 ELSE 1
InitCount(lim) == IF lim < 2 THEN 0 ELSE 1

\* line 44
HighUnclipped(lo, seg, lim) == lo + seg - 1
High(lo, seg, lim) == Min(lo + seg - 1, lim)

\* line 39, the loop increment
NextLowStuck(lo, seg) == lo
NextLow(lo, seg) == lo + seg

\* line 54, the loop condition
InitLoopCondStrict(sv, sh) == sv < sh
InitLoopCond(sv, sh) == sv <= sh

\* line 59
InitialIndexNoLow(sv, lo) == sv * sv
InitialIndex(sv, lo) == sv * sv - lo

\* line 67, the stride k
StrideEveryMultiple(p) == p
Stride(p) == p * 2

\* line 69
CarriedIndexWrapped(jv, seg) == jv % seg
CarriedIndex(jv, seg) == jv - seg

----------------------------------------------------------------------------
Init ==
  /\ limit \in 0..MaxLimit
  /\ L1D_CACHE_SIZE \in 1..MaxCache
  /\ sqrt = 0 /\ segment_size = 0 /\ count = 0
  /\ i = 0 /\ n = 0 /\ s = 0
  /\ sieve = <<>> /\ is_prime = <<>>
  /\ primes = <<>> /\ indexes = <<>>
  /\ low = 0 /\ high = 0 /\ sqrt_high = 0
  /\ idx = 0 /\ j = 0
  /\ emitted = <<>>
  /\ pc = "entry"

\* lines 25-39: the declarations and the initialisation of the outer loop
Setup ==
  /\ pc = "entry"
  /\ sqrt' = ISqrt(limit)
  /\ segment_size' = SegmentSize(ISqrt(limit), L1D_CACHE_SIZE)
  /\ count' = InitCount(limit)
  /\ i' = 3 /\ n' = 3 /\ s' = 3
  /\ sieve' = [x \in 0..(SegmentSize(ISqrt(limit), L1D_CACHE_SIZE) - 1) |-> FALSE]
  /\ is_prime' = [x \in 0..ISqrt(limit) |-> TRUE]
  /\ primes' = <<>> /\ indexes' = <<>>
  /\ low' = 0
  /\ pc' = "outer"
  /\ UNCHANGED <<limit, L1D_CACHE_SIZE, high, sqrt_high, idx, j, emitted>>

\* lines 39-45: the loop test, the fill, high and sqrt_high; line 77 on exit
SegmentBegin ==
  /\ pc = "outer"
  /\ IF low <= limit
       THEN /\ sieve' = [x \in DOMAIN sieve |-> TRUE]
            /\ high' = High(low, segment_size, limit)
            /\ sqrt_high' = ISqrt(High(low, segment_size, limit))
            /\ pc' = "gen"
       ELSE /\ pc' = "done"
            /\ UNCHANGED <<sieve, high, sqrt_high>>
  /\ UNCHANGED <<limit, L1D_CACHE_SIZE, sqrt, segment_size, count, i, n, s,
                 is_prime, primes, indexes, low, idx, j, emitted>>

\* lines 48-50: one test of the loop over i
GenStep ==
  /\ pc = "gen"
  /\ IF i <= sqrt_high
       THEN IF i \notin DOMAIN is_prime
              THEN /\ pc' = "ub" /\ UNCHANGED <<i, j, idx>>
              ELSE IF is_prime[i]
                     THEN /\ j' = i * i /\ pc' = "gen_mark"
                          /\ UNCHANGED <<i, idx>>
                     ELSE /\ i' = i + 2 /\ UNCHANGED <<j, pc, idx>>
       ELSE /\ pc' = "init" /\ UNCHANGED <<i, j, idx>>
  /\ UNCHANGED <<limit, L1D_CACHE_SIZE, sqrt, segment_size, count, n, s, sieve,
                 is_prime, primes, indexes, low, high, sqrt_high, emitted>>

\* lines 50-51: one test of the loop over j, and the i += 2 that follows it
GenMark ==
  /\ pc = "gen_mark"
  /\ IF j <= sqrt
       THEN IF j \notin DOMAIN is_prime
              THEN /\ pc' = "ub" /\ UNCHANGED <<is_prime, i, j>>
              ELSE /\ is_prime' = [is_prime EXCEPT ![j] = FALSE]
                   /\ j' = j + i
                   /\ UNCHANGED <<i, pc>>
       ELSE /\ i' = i + 2 /\ j' = 0 /\ pc' = "gen"
            /\ UNCHANGED is_prime
  /\ UNCHANGED <<limit, L1D_CACHE_SIZE, sqrt, segment_size, count, n, s, sieve,
                 primes, indexes, low, high, sqrt_high, idx, emitted>>

\* lines 54-61: one test of the loop over s; line 64, idx = 0, on exit
InitStep ==
  /\ pc = "init"
  /\ IF InitLoopCond(s, sqrt_high)
       THEN IF s \notin DOMAIN is_prime
              THEN /\ pc' = "ub" /\ UNCHANGED <<primes, indexes, s, idx>>
              ELSE /\ IF is_prime[s]
                        THEN /\ primes' = Append(primes, s)
                             /\ indexes' = Append(indexes, InitialIndex(s, low))
                        ELSE UNCHANGED <<primes, indexes>>
                   /\ s' = s + 2
                   /\ UNCHANGED <<pc, idx>>
       ELSE /\ idx' = 0 /\ pc' = "seg"
            /\ UNCHANGED <<primes, indexes, s>>
  /\ UNCHANGED <<limit, L1D_CACHE_SIZE, sqrt, segment_size, count, i, n, sieve,
                 is_prime, low, high, sqrt_high, j, emitted>>

\* lines 64-66: one test of the loop over the sieving primes
SegStep ==
  /\ pc = "seg"
  /\ IF idx < Len(primes)
       THEN /\ j' = indexes[idx + 1] /\ pc' = "seg_mark"
       ELSE /\ pc' = "scan" /\ UNCHANGED j
  /\ UNCHANGED <<limit, L1D_CACHE_SIZE, sqrt, segment_size, count, i, n, s,
                 sieve, is_prime, primes, indexes, low, high, sqrt_high, idx,
                 emitted>>

\* lines 67-69: one test of the loop over j, and the store that follows it
SegMark ==
  /\ pc = "seg_mark"
  /\ IF j < segment_size
       THEN IF j \notin DOMAIN sieve
              THEN /\ pc' = "ub" /\ UNCHANGED <<sieve, indexes, idx, j>>
              ELSE /\ sieve' = [sieve EXCEPT ![j] = FALSE]
                   /\ j' = j + Stride(primes[idx + 1])
                   /\ UNCHANGED <<indexes, idx, pc>>
       ELSE /\ indexes' = [indexes EXCEPT ![idx + 1] = CarriedIndex(j, segment_size)]
            /\ idx' = idx + 1 /\ j' = 0 /\ pc' = "seg"
            /\ UNCHANGED sieve
  /\ UNCHANGED <<limit, L1D_CACHE_SIZE, sqrt, segment_size, count, i, n, s,
                 is_prime, primes, low, high, sqrt_high, emitted>>

\* lines 72-74: one test of the scan loop; line 39, low += segment_size, on exit
ScanStep ==
  /\ pc = "scan"
  /\ IF n <= high
       THEN IF (n - low) \notin DOMAIN sieve
              THEN /\ pc' = "ub" /\ UNCHANGED <<count, emitted, n, low, idx>>
              ELSE /\ IF sieve[n - low]
                        THEN /\ count' = count + 1
                             /\ emitted' = Append(emitted, n)
                        ELSE UNCHANGED <<count, emitted>>
                   /\ n' = n + 2
                   /\ UNCHANGED <<low, pc, idx>>
       ELSE /\ low' = NextLow(low, segment_size) /\ idx' = 0 /\ pc' = "outer"
            /\ UNCHANGED <<count, emitted, n>>
  /\ UNCHANGED <<limit, L1D_CACHE_SIZE, sqrt, segment_size, i, s, sieve,
                 is_prime, primes, indexes, high, sqrt_high, j>>

Next ==
  \/ Setup
  \/ SegmentBegin
  \/ GenStep
  \/ GenMark
  \/ InitStep
  \/ SegStep
  \/ SegMark
  \/ ScanStep

Spec == Init /\ [][Next]_vars

\* The program is sequential and runs without suspension: a step that is
\* possible is eventually taken.
FairSpec == Spec /\ WF_vars(Next)

----------------------------------------------------------------------------
\* Reference definitions the properties are stated against.

\* Trial division.
IsPrimeRef(x) == x >= 2 /\ \A d \in 2..(x - 1) : x % d # 0
PrimesUpTo(b) == {p \in 2..b : IsPrimeRef(p)}

\* r is the floor of the square root of x.
IsFloorSqrt(r, x) == r >= 0 /\ r * r <= x /\ x < (r + 1) * (r + 1)

EmittedSet == {emitted[q] : q \in DOMAIN emitted}
Leading2 == IF limit >= 2 THEN {2} ELSE {}

\* The marking step of a segment has not yet touched list position q (1-based).
Pending(q) == pc \in {"seg", "seg_mark"} /\ q > idx
\* The marking step of a segment has stored the new offset of position q.
Swept(q) == (pc \in {"seg", "seg_mark"} /\ q <= idx) \/ pc = "scan"

----------------------------------------------------------------------------
\* C1: when the run ends, count equals the number of primes <= limit found
\* by trial division, and the values counted, together with 2 when
\* limit >= 2, are exactly the primes <= limit; no run ends in undefined
\* behaviour instead.  This holds for every cache size explored.
C1_CountMatchesReference ==
  /\ pc # "ub"
  /\ pc = "done" =>
       /\ count = Cardinality(PrimesUpTo(limit))
       /\ EmittedSet \cup Leading2 = PrimesUpTo(limit)

\* A run over at least three segments that ends with sieved composites
\* excluded: limit >= 25 needs the sieving primes 3 and 5.
C1_Witness ==
  /\ pc = "done" /\ limit >= 100 /\ low >= 3 * segment_size
  /\ count = 25 + Cardinality({p \in 101..limit : IsPrimeRef(p)})

\* C2: for limit < 2 the count stays 0 and nothing is counted; the count
\* starts at 1 exactly when limit >= 2 (so it is always that start value
\* plus the number of increments), and the scan never counts 0, 1 or 2.
C2_CountInitialisation ==
  /\ limit < 2 => count = 0 /\ emitted = <<>>
  /\ pc # "entry" => count = (IF limit >= 2 THEN 1 ELSE 0) + Len(emitted)
  /\ (pc = "outer" /\ low = 0) => (count = 1 <=> limit >= 2)
  /\ \A q \in DOMAIN emitted : emitted[q] \notin {0, 1, 2}

\* A finished run with limit = 1 that went through two segments.
C2_Witness == pc = "done" /\ limit = 1 /\ low = 2 /\ count = 0

\* C3: every run terminates; low only ever grows, by segment_size, and the
\* run ends at the first low > limit.
C3_Terminates ==
  /\ <>(pc = "done")
  /\ [][low' = low \/ (low' = low + segment_size /\ low' > low)]_vars
  /\ [](pc = "done" => low > limit /\ low - segment_size <= limit)

\* A finished run that went through several segments and every inner loop.
C3_Witness ==
  /\ pc = "done" /\ low >= 4 * segment_size
  /\ Len(primes) >= 2 /\ Len(emitted) >= 10

\* C4: the counted values are strictly increasing (hence without
\* duplicates), odd, >= 3 and <= limit.
C4_EmittedIncreasing ==
  /\ \A q \in DOMAIN emitted :
       emitted[q] % 2 = 1 /\ emitted[q] >= 3 /\ emitted[q] <= limit
  /\ \A q \in 1..(Len(emitted) - 1) : emitted[q] < emitted[q + 1]

\* Values were counted in a segment other than the first, after earlier ones.
C4_Witness ==
  /\ pc = "scan" /\ low > 0 /\ Len(emitted) >= 3
  /\ emitted[Len(emitted)] >= low
  /\ emitted[1] < low

\* C5: segment_size = max(floor(sqrt(limit)), L1D_CACHE_SIZE), so it is
\* never below either of them, also for limit < 2; it never changes once
\* computed.
C5_SegmentSizing ==
  /\ [](pc # "entry" =>
          /\ \E r \in 0..limit :
               IsFloorSqrt(r, limit) /\ sqrt = r
               /\ segment_size = (IF r > L1D_CACHE_SIZE THEN r ELSE L1D_CACHE_SIZE)
          /\ segment_size >= L1D_CACHE_SIZE
          /\ segment_size * segment_size <= limit
               \/ (segment_size + 1) * (segment_size + 1) > limit)
  /\ [][pc # "entry" => segment_size' = segment_size]_vars

\* A run in which floor(sqrt(limit)) exceeds the cache size and is picked.
C5_Witness ==
  pc = "done" /\ segment_size > L1D_CACHE_SIZE /\ segment_size * segment_size <= limit

\* C6: from the start of the marking step of a segment to the end of the
\* segment, the sieving-prime list is exactly the odd primes
\* <= floor(sqrt(high)), in increasing order, each once.
C6_SievingPrimesExact ==
  pc \in {"seg", "seg_mark", "scan"} =>
    /\ IsFloorSqrt(sqrt_high, high)
    /\ {primes[q] : q \in DOMAIN primes} = {p \in 3..sqrt_high : IsPrimeRef(p)}
    /\ \A q \in 1..(Len(primes) - 1) : primes[q] < primes[q + 1]
    /\ Len(indexes) = Len(primes)

\* The marking step begins in a later segment in which a sieving prime has
\* just been added to a list that already held another one.
C6_Witness ==
  /\ pc = "seg" /\ idx = 0 /\ low > 0 /\ Len(primes) >= 2
  /\ indexes[Len(primes)] + low = primes[Len(primes)] * primes[Len(primes)]

\* C7 as stated: when the segment is processed, offset + low is the next
\* multiple of p that is >= max(p*p, low), that is p*p + k*p for the
\* smallest k >= 0 that makes p*p + k*p - low >= 0.
C7_OffsetNextMultiple ==
  \A q \in DOMAIN primes :
    Pending(q) =>
      \E k \in 0..limit :
        /\ indexes[q] = primes[q] * primes[q] + k * primes[q] - low
        /\ indexes[q] >= 0
        /\ k > 0 => primes[q] * primes[q] + (k - 1) * primes[q] - low < 0

\* C7 as amended: when the segment is processed, offset + low is the next
\* odd multiple of p that is >= max(p*p, low), that is p*p + 2*k*p for the
\* smallest k >= 0 that makes p*p + 2*k*p - low >= 0.
C7_OffsetNextOddMultiple ==
  \A q \in DOMAIN primes :
    Pending(q) =>
      \E k \in 0..limit :
        /\ indexes[q] = primes[q] * primes[q] + 2 * k * primes[q] - low
        /\ indexes[q] >= 0
        /\ k > 0 => primes[q] * primes[q] + 2 * (k - 1) * primes[q] - low < 0

\* The marking step begins with an offset carried over from the segment
\* before, for a prime whose next multiple >= low is even.
C7_Witness ==
  /\ pc = "seg" /\ idx = 0 /\ low > 0
  /\ \E q \in DOMAIN primes :
       /\ primes[q] * primes[q] < low
       /\ (indexes[q] + low) % 2 = 1
       /\ indexes[q] >= primes[q]

\* C9: before a prime is swept in a segment its offset o is >= 0 and
\* low + o is an odd multiple of p of the form p*p + 2*t*p, the smallest
\* one >= low; the offset stored after the sweep is in [0, 2*p).
C9_OffsetForm ==
  \A q \in DOMAIN primes :
    /\ Pending(q) =>
         /\ indexes[q] >= 0
         /\ low + indexes[q] >= primes[q] * primes[q]
         /\ (low + indexes[q] - primes[q] * primes[q]) % (2 * primes[q]) = 0
         /\ (low + indexes[q]) % 2 = 1
         /\ low + indexes[q] = primes[q] * primes[q] \/ indexes[q] < 2 * primes[q]
    /\ Swept(q) => 0 <= indexes[q] /\ indexes[q] < 2 * primes[q]

\* A prime with 2*p > segment_size has been swept in a later segment
\* without marking anything, and its stored offset is not 0.
C9_Witness ==
  /\ pc = "scan" /\ low > 0
  /\ \E q \in DOMAIN primes :
       /\ 2 * primes[q] > segment_size
       /\ primes[q] * primes[q] < low
       /\ indexes[q] > 0
       /\ indexes[q] + segment_size >= segment_size + segment_size

\* C8: after the marking step and before the scan of a segment, for every
\* odd n with max(low, 3) <= n <= high, sieve[n - low] is true exactly
\* when n is prime.
C8_SegmentSieveExact ==
  pc = "scan" =>
    \A m \in Max(low, 3)..high :
      m % 2 = 1 =>
        /\ (m - low) \in DOMAIN sieve
        /\ sieve[m - low] <=> IsPrimeRef(m)

\* In a third or later segment an odd composite has been marked from a
\* carried offset, and an odd prime has survived.
C8_Witness ==
  /\ pc = "scan" /\ low >= 2 * segment_size /\ n <= low + 1
  /\ \E m \in low..high : m % 2 = 1 /\ ~IsPrimeRef(m) /\ ~sieve[m - low]
  /\ \E m \in low..high : m % 2 = 1 /\ IsPrimeRef(m) /\ sieve[m - low]

\* C10: every array access is in bounds: writes sieve[j] have
\* 0 <= j < segment_size, reads sieve[n - low] have 0 <= n - low <
\* segment_size, the indexes i, s, j into is_prime are in 0..sqrt with sqrt
\* the floor of the square root of limit, and the initial offset of a
\* newly added sieving prime is in [0, segment_size).
C10_AccessesInBounds ==
  /\ [](/\ pc # "ub"
        /\ pc # "entry" => /\ IsFloorSqrt(sqrt, limit)
                           /\ DOMAIN sieve = 0..(segment_size - 1)
                           /\ DOMAIN is_prime = 0..sqrt
        /\ (pc = "seg_mark" /\ j < segment_size) => 0 <= j
        /\ pc = "scan" => n >= low
        /\ (pc = "scan" /\ n <= high) => n - low < segment_size
        /\ (pc = "gen" /\ i <= sqrt_high) => 0 <= i /\ i <= sqrt
        /\ (pc = "gen_mark" /\ j <= sqrt) => 0 <= j
        /\ (pc = "init" /\ s <= sqrt_high) => 0 <= s /\ s <= sqrt)
  /\ [][Len(indexes') > Len(indexes) =>
          /\ indexes'[Len(indexes')] >= 0
          /\ indexes'[Len(indexes')] < segment_size]_vars

\* In a later segment a sieving prime is being added, the base sieve has
\* been written, and the run got there without undefined behaviour.
C10_Witness ==
  /\ pc = "init" /\ low > 0 /\ s <= sqrt_high /\ is_prime[s]
  /\ \E x \in DOMAIN is_prime : ~is_prime[x]
  /\ Len(emitted) > 0
====
